---- MODULE Spec2Model ----
(***************************************************************************)
(* Model of the Deployment Configuration Compiler of sbuglider:            *)
(* scripts/generate_deploymentyaml.py, main() and                          *)
(* is_sensor_listed_as_source(), with the lookups of sbuglider/common.py   *)
(* and the logger set-up of sbuglider/loggers.py that main() relies on.    *)
(* run.main() is modelled from its call of check_config_files.main() on.   *)
(*                                                                         *)
(* Python dicts are functions over finite sets of strings; a key that is   *)
(* absent from a dict is absent from the function's DOMAIN.  An uncaught   *)
(* Python exception leaves main(): pc = "crashed".                         *)
(***************************************************************************)
EXTENDS Integers, Sequences, FiniteSets, TLC

VARIABLES
    deployments,        \* args.deployments, the batch
    files,              \* the file system: per deployment, its documents
    pc,                 \* position of main() in the body of the loop
    i,                  \* index of the current deployment in the batch
    template_data,      \* the working copy
    platform_metadata,  \* parsed platform.yml
    instruments,        \* parsed instruments.json
    combined_data,      \* combined sensor-definition lookup
    sensors,            \* parsed sensors.txt
    j,                  \* index of the current manifest code
    check,              \* result of the last is_sensor_listed_as_source call
    log,                \* the logging calls made so far, in order
    handler,            \* log file of the handler of logger __name__
    data_home,          \* state of the data-home environment variable
    deployments_root    \* second value of find_glider_deployments_rootdir

vars == <<deployments, files, pc, i, template_data, platform_metadata,
          instruments, combined_data, sensors, j, check, log, handler,
          data_home, deployments_root>>

-----------------------------------------------------------------------------
(* Bounds of the model. *)

MaxBatch == 2
MaxManifest == 3
MaxCatRecords == 2
MaxInstruments == 2

-----------------------------------------------------------------------------
(* Dicts. *)

EmptyMap == [x \in {} |-> x]

\* dict.update(b) on dict a
Update(a, b) ==
    [k \in (DOMAIN a) \cup (DOMAIN b) |-> IF k \in DOMAIN b THEN b[k] ELSE a[k]]

\* a[k] = v
SetKey(a, k, v) ==
    [x \in (DOMAIN a) \cup {k} |-> IF x = k THEN v ELSE a[x]]

\* all dicts with keys among K and values in V
Maps(K, V) == UNION {[S -> V] : S \in SUBSET K}

-----------------------------------------------------------------------------
(* Documents on disk. *)

Missing == [status |-> "missing"]
Bad == [status |-> "bad"]
Ok(x) == [status |-> "ok", data |-> x]

IsFile(doc) == doc.status # "missing"
Parses(doc) == doc.status = "ok"

Deployments == {"d1", "d2"}
Codes == {"s1", "s2"}

AllowList ==
    {"axis", "units", "long_name", "standard_name", "valid_min", "valid_max",
     "fill_value"}

-----------------------------------------------------------------------------
(* is_sensor_listed_as_source *)

\* variant: compares the variable name, not its source, with the sensor
is_sensor_listed_as_source_ByKey(sensor, td) ==
    LET netcdf_variables ==
            IF "netcdf_variables" \in DOMAIN td
            THEN td["netcdf_variables"] ELSE EmptyMap
    IN  \E var \in DOMAIN netcdf_variables : var = sensor

\* variant: get("source", sensor), an entry without source counts as listed
is_sensor_listed_as_source_DefaultMatches(sensor, td) ==
    LET netcdf_variables ==
            IF "netcdf_variables" \in DOMAIN td
            THEN td["netcdf_variables"] ELSE EmptyMap
    IN  \E var \in DOMAIN netcdf_variables :
            \/ "source" \notin DOMAIN netcdf_variables[var]
            \/ netcdf_variables[var]["source"] = sensor

\* lines 27-33
is_sensor_listed_as_source(sensor, td) ==
    LET netcdf_variables ==
            IF "netcdf_variables" \in DOMAIN td
            THEN td["netcdf_variables"] ELSE EmptyMap
    IN  \E var \in DOMAIN netcdf_variables :
            /\ "source" \in DOMAIN netcdf_variables[var]
            /\ netcdf_variables[var]["source"] = sensor

-----------------------------------------------------------------------------
(* The merge policy of main(), one operator per block of assignments. *)

\* variant: the update runs the other way, the template wins
OverlayGlobalAttrs_TemplateWins(td, deployment_global_attrs) ==
    IF "metadata" \in DOMAIN td
    THEN SetKey(td, "metadata", Update(deployment_global_attrs, td["metadata"]))
    ELSE SetKey(td, "metadata", deployment_global_attrs)

\* lines 101-104: overlay of deployment-globalattrs.yml onto metadata
OverlayGlobalAttrs(td, deployment_global_attrs) ==
    IF "metadata" \in DOMAIN td
    THEN SetKey(td, "metadata", Update(td["metadata"], deployment_global_attrs))
    ELSE SetKey(td, "metadata", deployment_global_attrs)

\* lines 115 and 121-126: platform is reset, then platform.yml is overlaid
OverlayPlatform(td, pm) ==
    LET reset == SetKey(td, "platform", EmptyMap)
    IN  IF "platform" \in DOMAIN reset
        THEN SetKey(reset, "platform", Update(reset["platform"], pm["platform"]))
        ELSE SetKey(reset, "platform", pm["platform"])

\* lines 135-146 raise KeyError unless platform.yml has all of these
ExtraInfoKeysPresent(pm) ==
    /\ "platform" \in DOMAIN pm
    /\ "glider" \in DOMAIN pm
    /\ {"wmo_id", "wmo_platform_code", "serial_number"} \subseteq DOMAIN pm["platform"]

\* variant: deployment_name is left as the documents gave it
AddExtraInfo_NoDeploymentName(td, pm, deployment) ==
    LET m0 == td["metadata"]
        m1 == SetKey(m0, "wmo_id", pm["platform"]["wmo_id"])
        m2 == SetKey(m1, "wmo_platform_code", pm["platform"]["wmo_platform_code"])
        m3 == SetKey(m2, "deployment", deployment)
        m5 == SetKey(m3, "glider_name", pm["glider"])
        m6 == SetKey(m5, "glider_serial", pm["platform"]["serial_number"])
    IN  SetKey(td, "metadata", m6)

\* variant: setdefault, a key that metadata already has is kept
AddExtraInfo_KeepExisting(td, pm, deployment) ==
    LET derived ==
            ("wmo_id" :> pm["platform"]["wmo_id"]) @@
            ("wmo_platform_code" :> pm["platform"]["wmo_platform_code"]) @@
            ("deployment" :> deployment) @@
            ("deployment_name" :> deployment) @@
            ("glider_name" :> pm["glider"]) @@
            ("glider_serial" :> pm["platform"]["serial_number"])
    IN  SetKey(td, "metadata", Update(derived, td["metadata"]))

\* lines 135-146: derived metadata
AddExtraInfo(td, pm, deployment) ==
    LET m0 == td["metadata"]
        m1 == SetKey(m0, "wmo_id", pm["platform"]["wmo_id"])
        m2 == SetKey(m1, "wmo_platform_code", pm["platform"]["wmo_platform_code"])
        m3 == SetKey(m2, "deployment", deployment)
        m4 == SetKey(m3, "deployment_name", deployment)
        m5 == SetKey(m4, "glider_name", pm["glider"])
        m6 == SetKey(m5, "glider_serial", pm["platform"]["serial_number"])
    IN  SetKey(td, "metadata", m6)

\* variant: a name that is already a key is not assigned again
RECURSIVE InstrumentsMap_FirstWins(_)
InstrumentsMap_FirstWins(recs) ==
    IF recs = <<>> THEN EmptyMap
    ELSE LET instrument == recs[1]
         IN  SetKey(InstrumentsMap_FirstWins(SubSeq(recs, 2, Len(recs))),
                    instrument["nc_var_name"], instrument["attrs"])

\* lines 158-162: instruments rebuilt from the records of instruments.json
RECURSIVE InstrumentsMap(_)
InstrumentsMap(recs) ==
    IF recs = <<>> THEN EmptyMap
    ELSE LET instrument == recs[Len(recs)]
         IN  SetKey(InstrumentsMap(SubSeq(recs, 1, Len(recs) - 1)),
                    instrument["nc_var_name"], instrument["attrs"])

\* variant: the update runs the other way, the raw catalog wins
CombineSensorDefs_RawWins(sdraw_data, sdprofile_data) ==
    Update(sdprofile_data, sdraw_data)

\* lines 173-174: profile catalog laid over a copy of the raw catalog
CombineSensorDefs(sdraw_data, sdprofile_data) == Update(sdraw_data, sdprofile_data)

\* variant: units is not in the list of copied keys
FilterAttrs_NoUnits(attrs) ==
    [key \in (DOMAIN attrs) \cap (AllowList \ {"units"}) |-> attrs[key]]

\* variant: every attribute of the record is copied
FilterAttrs_Unfiltered(attrs) == attrs

\* lines 201-211: the attributes of a record that are copied
FilterAttrs(attrs) ==
    [key \in (DOMAIN attrs) \cap AllowList |-> attrs[key]]

\* variant: no except branch, the KeyError of the lookup leaves main()
Fallback_Raises(sensor, td) ==
    [td |-> td, warned |-> FALSE, crashed |-> TRUE]

\* variant: the minimal entry is left empty
Fallback_NoSource(sensor, td) ==
    IF "netcdf_variables" \notin DOMAIN td
    THEN [td |-> td, warned |-> FALSE, crashed |-> TRUE]
    ELSE [td |-> SetKey(td, "netcdf_variables",
                        SetKey(td["netcdf_variables"], sensor, EmptyMap)),
          warned |-> TRUE, crashed |-> FALSE]

\* variant: the minimal entry goes under a fixed placeholder name
Fallback_Placeholder(sensor, td) ==
    IF "netcdf_variables" \notin DOMAIN td
    THEN [td |-> td, warned |-> FALSE, crashed |-> TRUE]
    ELSE [td |-> SetKey(td, "netcdf_variables",
                        SetKey(td["netcdf_variables"], "unknown",
                               "source" :> sensor)),
          warned |-> TRUE, crashed |-> FALSE]

\* lines 213-217: the except KeyError branch, entered with working copy td.
\* Without netcdf_variables line 213 raises KeyError inside the handler.
Fallback(sensor, td) ==
    IF "netcdf_variables" \notin DOMAIN td
    THEN [td |-> td, warned |-> FALSE, crashed |-> TRUE]
    ELSE [td |-> SetKey(td, "netcdf_variables",
                        SetKey(td["netcdf_variables"], sensor,
                               "source" :> sensor)),
          warned |-> TRUE, crashed |-> FALSE]

\* lines 191-217: the body of the loop over the manifest for one code
ResolveSensor(sensor, td, cd) ==
    IF is_sensor_listed_as_source(sensor, td)
    THEN [td |-> td, warned |-> FALSE, crashed |-> FALSE]
    ELSE IF sensor \notin DOMAIN cd                      \* line 197
    THEN Fallback(sensor, td)
    ELSE LET sensor_info == cd[sensor] IN
         IF "nc_var_name" \notin DOMAIN sensor_info      \* line 198
         THEN Fallback(sensor, td)
         ELSE IF "netcdf_variables" \notin DOMAIN td     \* line 199
         THEN Fallback(sensor, td)
         ELSE LET keyname == sensor_info["nc_var_name"]
                  started == SetKey(td, "netcdf_variables",
                                    SetKey(td["netcdf_variables"], keyname,
                                           "source" :> sensor))
              IN  IF "attrs" \notin DOMAIN sensor_info   \* line 201
                  THEN Fallback(sensor, started)
                  ELSE [td |-> SetKey(td, "netcdf_variables",
                                 SetKey(td["netcdf_variables"], keyname,
                                        FilterAttrs(sensor_info["attrs"])
                                            @@ ("source" :> sensor))),
                        warned |-> FALSE, crashed |-> FALSE]

-----------------------------------------------------------------------------
(* main(): the loop over args.deployments. *)

deployment == deployments[i]
config == files[deployment]

\* the logging calls; file is the log file the logger's handler writes to
LogTo(file, level, msg) ==
    log' = Append(log, [file |-> file, level |-> level, msg |-> msg,
                        deployment |-> deployment])

\* `continue`, or the end of the loop body: on to the next deployment
NextDeployment ==
    /\ i' = i + 1
    /\ pc' = IF i < Len(deployments) THEN "start" ELSE "done"

\* an exception that no handler of main() catches
Raise == pc' = "crashed" /\ i' = i

\* what the search for the deployments root leaves behind
rootdir == <<data_home, deployments_root>>

locals == <<template_data, platform_metadata, instruments, combined_data,
            sensors, j, check>>

\* variant: no test for the proc-logs directory
StartDeployment_NoProcLogsCheck ==
    /\ pc = "start"
    /\ UNCHANGED <<rootdir, deployments, files, locals>>
    /\ IF config.location # "found"
       THEN /\ LogTo("base",
                     IF config.location = "not_dir" THEN "warning" ELSE "error",
                     config.location)
            /\ Raise
            /\ UNCHANGED handler
       ELSE /\ handler' = IF handler = "none" THEN deployment ELSE handler
            /\ IF config.config_root
               THEN log' = log
               ELSE LogTo(handler', "warning", "invalid_config_root")
            /\ pc' = "template"
            /\ i' = i

\* lines 48-73: locate the deployment, require proc-logs, set up the logger
StartDeployment ==
    /\ pc = "start"
    /\ UNCHANGED <<rootdir, deployments, files, locals>>
    /\ IF config.location # "found"
       THEN \* find_glider_deployment_location logs and returns None;
            \* os.path.join(None, "proc-logs") raises TypeError
            /\ LogTo("base",
                     IF config.location = "not_dir" THEN "warning" ELSE "error",
                     config.location)
            /\ Raise
            /\ UNCHANGED handler
       ELSE IF ~config.proc_logs
       THEN /\ LogTo("base", "error", "proc_logs_not_found")
            /\ NextDeployment
            /\ UNCHANGED handler
       ELSE \* setup_logger adds a handler only if the logger has none
            /\ handler' = IF handler = "none" THEN deployment ELSE handler
            /\ IF config.config_root
               THEN log' = log
               ELSE LogTo(handler', "warning", "invalid_config_root")
            /\ pc' = "template"
            /\ i' = i

\* variant: a template that is already in memory is not read again
ReadTemplate_Cached ==
    /\ pc = "template"
    /\ UNCHANGED <<rootdir, deployments, files, platform_metadata, instruments,
                   combined_data, sensors, j, check, handler>>
    /\ IF ~IsFile(config.template)
       THEN /\ LogTo(handler, "error", "template_not_found")
            /\ NextDeployment
            /\ UNCHANGED template_data
       ELSE IF ~Parses(config.template)
       THEN /\ LogTo(handler, "error", "template_yaml_error")
            /\ NextDeployment
            /\ UNCHANGED template_data
       ELSE /\ template_data' = IF template_data = EmptyMap
                                THEN config.template.data ELSE template_data
            /\ pc' = "globalattrs"
            /\ UNCHANGED <<i, log>>

\* lines 75-88: deployment-template.yml
ReadTemplate ==
    /\ pc = "template"
    /\ UNCHANGED <<rootdir, deployments, files, platform_metadata, instruments,
                   combined_data, sensors, j, check, handler>>
    /\ IF ~IsFile(config.template)
       THEN /\ LogTo(handler, "error", "template_not_found")
            /\ NextDeployment
            /\ UNCHANGED template_data
       ELSE IF ~Parses(config.template)
       THEN /\ LogTo(handler, "error", "template_yaml_error")
            /\ NextDeployment
            /\ UNCHANGED template_data
       ELSE /\ template_data' = config.template.data
            /\ pc' = "globalattrs"
            /\ UNCHANGED <<i, log>>

\* lines 90-112: deployment-globalattrs.yml
ReadGlobalAttrs ==
    /\ pc = "globalattrs"
    /\ UNCHANGED <<rootdir, deployments, files, platform_metadata, instruments,
                   combined_data, sensors, j, check, handler>>
    /\ IF ~IsFile(config.globalattrs)
       THEN /\ LogTo(handler, "error", "globalattrs_not_found")
            /\ NextDeployment
            /\ UNCHANGED template_data
       ELSE IF ~Parses(config.globalattrs)
       THEN /\ LogTo(handler, "error", "globalattrs_yaml_error")
            /\ NextDeployment
            /\ UNCHANGED template_data
       ELSE /\ template_data' =
                   OverlayGlobalAttrs(template_data, config.globalattrs.data)
            /\ pc' = "platform"
            /\ UNCHANGED <<i, log>>

\* lines 114-132: platform.yml
ReadPlatform ==
    /\ pc = "platform"
    /\ UNCHANGED <<rootdir, deployments, files, instruments, combined_data, sensors,
                   j, check, handler>>
    /\ IF ~IsFile(config.platform)
       THEN /\ LogTo(handler, "error", "platform_not_found")
            /\ NextDeployment
            /\ template_data' = SetKey(template_data, "platform", EmptyMap)
            /\ UNCHANGED platform_metadata
       ELSE IF ~Parses(config.platform)
       THEN /\ LogTo(handler, "error", "platform_yaml_error")
            /\ NextDeployment
            /\ template_data' = SetKey(template_data, "platform", EmptyMap)
            /\ UNCHANGED platform_metadata
       ELSE /\ platform_metadata' = config.platform.data
            /\ IF "platform" \in DOMAIN platform_metadata'
               THEN /\ template_data' =
                           OverlayPlatform(template_data, platform_metadata')
                    /\ pc' = "extra"
                    /\ UNCHANGED <<i, log>>
               ELSE \* KeyError at line 123, only yaml.YAMLError is caught
                    /\ template_data' = SetKey(template_data, "platform", EmptyMap)
                    /\ Raise
                    /\ UNCHANGED log

\* lines 134-146: derived metadata
ExtraInfo ==
    /\ pc = "extra"
    /\ UNCHANGED <<rootdir, deployments, files, platform_metadata, instruments,
                   combined_data, sensors, j, check, handler, log>>
    /\ IF ExtraInfoKeysPresent(platform_metadata)
       THEN /\ template_data' =
                   AddExtraInfo(template_data, platform_metadata, deployment)
            /\ pc' = "instruments"
            /\ i' = i
       ELSE \* KeyError; the process ends, its memory is not observed
            /\ Raise
            /\ UNCHANGED template_data

\* lines 148-162: instruments.json
ReadInstruments ==
    /\ pc = "instruments"
    /\ UNCHANGED <<rootdir, deployments, files, platform_metadata, combined_data,
                   sensors, j, check, handler>>
    /\ IF ~IsFile(config.instruments)
       THEN /\ LogTo(handler, "error", "instruments_not_found")
            /\ NextDeployment
            /\ UNCHANGED <<template_data, instruments>>
       ELSE IF ~Parses(config.instruments)
       THEN \* json.JSONDecodeError is not caught
            /\ Raise
            /\ UNCHANGED <<template_data, instruments, log>>
       ELSE /\ instruments' = config.instruments.data
            /\ template_data' =
                   SetKey(template_data, "instruments", InstrumentsMap(instruments'))
            /\ pc' = "sensor_defs"
            /\ UNCHANGED <<i, log>>

\* lines 164-174: the two sensor_defs files, opened without any check
ReadSensorDefs ==
    /\ pc = "sensor_defs"
    /\ UNCHANGED <<rootdir, deployments, files, template_data, platform_metadata,
                   instruments, sensors, j, check, handler, log>>
    /\ IF Parses(config.sdraw) /\ Parses(config.sdprofile)
       THEN /\ combined_data' =
                   CombineSensorDefs(config.sdraw.data, config.sdprofile.data)
            /\ pc' = "sensors"
            /\ i' = i
       ELSE \* FileNotFoundError or json.JSONDecodeError, not caught
            /\ Raise
            /\ UNCHANGED combined_data

\* variant: deployment.yml is opened for writing before sensors.txt is read
ReadSensors_OpensDescriptor ==
    /\ pc = "sensors"
    /\ UNCHANGED <<rootdir, deployments, template_data, platform_metadata,
                   instruments, combined_data, check, handler>>
    /\ files' = [files EXCEPT ![deployment].descriptor = Ok(EmptyMap)]
    /\ IF ~IsFile(config.sensors)
       THEN /\ LogTo(handler, "error", "sensors_not_found")
            /\ NextDeployment
            /\ UNCHANGED <<sensors, j>>
       ELSE IF ~Parses(config.sensors)
       THEN /\ Raise
            /\ UNCHANGED <<sensors, j, log>>
       ELSE /\ sensors' = config.sensors.data
            /\ j' = 1
            /\ pc' = "manifest"
            /\ UNCHANGED <<i, log>>

\* lines 176-186: sensors.txt
ReadSensors ==
    /\ pc = "sensors"
    /\ UNCHANGED <<rootdir, deployments, files, template_data, platform_metadata,
                   instruments, combined_data, check, handler>>
    /\ IF ~IsFile(config.sensors)
       THEN /\ LogTo(handler, "error", "sensors_not_found")
            /\ NextDeployment
            /\ UNCHANGED <<sensors, j>>
       ELSE IF ~Parses(config.sensors)
       THEN \* UnicodeDecodeError from readlines() is not caught
            /\ Raise
            /\ UNCHANGED <<sensors, j, log>>
       ELSE /\ sensors' = config.sensors.data
            /\ j' = 1
            /\ pc' = "manifest"
            /\ UNCHANGED <<i, log>>

\* lines 189-217: one iteration of the loop over the manifest
ProcessSensor ==
    /\ pc = "manifest"
    /\ j <= Len(sensors)
    /\ UNCHANGED <<rootdir, deployments, files, platform_metadata, instruments,
                   combined_data, sensors, handler>>
    /\ LET sensor == sensors[j]
           r == ResolveSensor(sensor, template_data, combined_data)
       IN  /\ check' = is_sensor_listed_as_source(sensor, template_data)
           /\ template_data' = r.td
           /\ IF r.crashed
              THEN Raise /\ UNCHANGED <<j, log>>
              ELSE /\ j' = j + 1
                   /\ UNCHANGED <<pc, i>>
                   /\ IF r.warned
                      THEN log' = Append(log,
                               [file |-> handler, level |-> "warning",
                                msg |-> "no_information_found",
                                deployment |-> deployment, sensor |-> sensor])
                      ELSE log' = log

\* variant: the template as loaded is dumped, not the working copy
WriteDeployment_TemplateOnly ==
    /\ pc = "manifest"
    /\ j > Len(sensors)
    /\ files' = [files EXCEPT ![deployment].descriptor = Ok(config.template.data)]
    /\ LogTo(handler, "info", "wrote_deployment_yml")
    /\ NextDeployment
    /\ UNCHANGED <<rootdir, deployments, locals, handler>>

\* variant: deployment.yml is opened in append mode
WriteDeployment_Appends ==
    /\ pc = "manifest"
    /\ j > Len(sensors)
    /\ files' = [files EXCEPT ![deployment].descriptor =
                    IF config.descriptor.status = "ok"
                    THEN Ok([first |-> config.descriptor.data,
                             then |-> template_data])
                    ELSE Ok(template_data)]
    /\ LogTo(handler, "info", "wrote_deployment_yml")
    /\ NextDeployment
    /\ UNCHANGED <<rootdir, deployments, locals, handler>>

\* variant: the dump goes to the path of the template
WriteDeployment_OverTemplate ==
    /\ pc = "manifest"
    /\ j > Len(sensors)
    /\ files' = [files EXCEPT ![deployment].template = Ok(template_data)]
    /\ LogTo(handler, "info", "wrote_deployment_yml")
    /\ NextDeployment
    /\ UNCHANGED <<rootdir, deployments, locals, handler>>

\* lines 219-228: deployment.yml is opened for writing and dumped
WriteDeployment ==
    /\ pc = "manifest"
    /\ j > Len(sensors)
    /\ files' = [files EXCEPT ![deployment].descriptor = Ok(template_data)]
    /\ LogTo(handler, "info", "wrote_deployment_yml")
    /\ NextDeployment
    /\ UNCHANGED <<rootdir, deployments, locals, handler>>

Next ==
    \/ StartDeployment
    \/ ReadTemplate
    \/ ReadGlobalAttrs
    \/ ReadPlatform
    \/ ExtraInfo
    \/ ReadInstruments
    \/ ReadSensorDefs
    \/ ReadSensors
    \/ ProcessSensor
    \/ WriteDeployment

-----------------------------------------------------------------------------
(* main() before the loop: the search for the deployments root. *)

\* values a Python name can hold here: a path, or the integer 1
StrVal(path) == [type |-> "str", path |-> path]
IntVal(n) == [type |-> "int", n |-> n]
Unbound == [type |-> "unbound"]
isinstance_str(x) == x.type = "str"

\* states of the data-home environment variable and of its directory
DataHomes == {"unset", "invalid", "no_deployments", "ok"}

\* variant: the deployments directory is joined but not tested
find_glider_deployments_rootdir_Unchecked(dh) ==
    IF dh \in {"unset", "invalid"}
    THEN <<IntVal(1), IntVal(1)>>
    ELSE <<StrVal("data_home"), StrVal("deployments")>>

\* common.py lines 229-243: the pair (data_home, deployments_root)
find_glider_deployments_rootdir(dh) ==
    IF dh \in {"unset", "invalid", "no_deployments"}
    THEN <<IntVal(1), IntVal(1)>>
    ELSE <<StrVal("data_home"), StrVal("deployments")>>

\* the entry that find_glider_deployments_rootdir logs on the base logger
RootdirEntry(dh) ==
    [file |-> "base",
     level |-> IF dh = "no_deployments" THEN "warning" ELSE "error",
     msg |-> dh, deployment |-> "none"]

\* lines 41-46: the deployments root is looked up; the loop is entered only
\* when the second value is a string
FindRootdir ==
    /\ pc = "rootdir"
    /\ deployments_root' = find_glider_deployments_rootdir(data_home)[2]
    /\ log' = IF data_home = "ok" THEN log
              ELSE Append(log, RootdirEntry(data_home))
    /\ pc' = IF isinstance_str(deployments_root') /\ deployments # <<>>
             THEN "start" ELSE "done"
    /\ UNCHANGED <<data_home, deployments, files, locals, i, handler>>

NextMain ==
    \/ FindRootdir
    \/ Next

-----------------------------------------------------------------------------
(* Input documents. *)

Remove(m, k) == [x \in (DOMAIN m) \ {k} |-> m[x]]
Range(seq) == {seq[n] : n \in 1..Len(seq)}
SeqsUpTo(S, n) == UNION {[1..m -> S] : m \in 0..n}

GoodTemplate ==
    ("metadata" :> ("title" :> "tpl")) @@
    ("platform" :> ("type" :> "tpl")) @@
    ("netcdf_variables" :> ("temp" :> ("source" :> "s1"))) @@
    ("profile_variables" :> ("profile_time" :> ("units" :> "s")))

GoodGlobalAttrs == ("title" :> "ga") @@ ("project" :> "ga")

GoodPlatformMap ==
    ("wmo_id" :> "w1") @@ ("wmo_platform_code" :> "c1") @@
    ("serial_number" :> "n1") @@ ("type" :> "slocum")

GoodPlatform == ("glider" :> "g1") @@ ("platform" :> GoodPlatformMap)

GoodInstruments ==
    << [nc_var_name |-> "instrument_ctd", attrs |-> ("serial" :> "1")] >>

GoodRaw ==
    "s2" :> [nc_var_name |-> "depth",
             attrs |-> (("units" :> "m") @@ ("comment" :> "x"))]

GoodFiles ==
    [location |-> "found", proc_logs |-> TRUE, config_root |-> TRUE,
     template |-> Ok(GoodTemplate), globalattrs |-> Ok(GoodGlobalAttrs),
     platform |-> Ok(GoodPlatform), instruments |-> Ok(GoodInstruments),
     sdraw |-> Ok(GoodRaw), sdprofile |-> Ok(EmptyMap),
     sensors |-> Ok(<<"s1", "s2">>), descriptor |-> Missing]

\* a deployment.yml left by an earlier run
StaleDescriptor == "metadata" :> ("deployment" :> "stale")

DocNames ==
    {"template", "globalattrs", "platform", "instruments", "sdraw",
     "sdprofile", "sensors"}

\* platform.yml lacking one of the keys that main() reads
BrokenPlatforms ==
    {Remove(GoodPlatform, "platform"), Remove(GoodPlatform, "glider")} \cup
    {("glider" :> "g1") @@ ("platform" :> Remove(GoodPlatformMap, k)) :
        k \in {"wmo_id", "wmo_platform_code", "serial_number"}}

\* a deployment with one defect
FaultyFiles ==
    {[GoodFiles EXCEPT !.location = l] : l \in {"no_match", "bad_date", "not_dir"}}
    \cup {[GoodFiles EXCEPT !.proc_logs = FALSE]}
    \cup {[f \in DOMAIN GoodFiles |->
              IF f \in DocNames THEN Missing
              ELSE IF f = "config_root" THEN FALSE ELSE GoodFiles[f]]}
    \cup {[GoodFiles EXCEPT ![doc] = st] : doc \in DocNames, st \in {Missing, Bad}}
    \cup {[GoodFiles EXCEPT !.platform = Ok(p)] : p \in BrokenPlatforms}
    \cup {[GoodFiles EXCEPT !.template = Ok(Remove(GoodTemplate, "netcdf_variables"))]}

\* a second sound deployment, every document different from GoodFiles
AltFiles ==
    [location |-> "found", proc_logs |-> TRUE, config_root |-> TRUE,
     template |-> Ok(("metadata" :> (("title" :> "alt") @@ ("summary" :> "alt"))) @@
                     ("netcdf_variables" :> ("pressure" :> ("source" :> "s2"))) @@
                     ("profile_variables" :> ("profile_lat" :> ("units" :> "deg")))),
     globalattrs |-> Ok("project" :> "alt"),
     platform |-> Ok(("glider" :> "g2") @@
                     ("platform" :> (("wmo_id" :> "w2") @@
                                     ("wmo_platform_code" :> "c2") @@
                                     ("serial_number" :> "n2")))),
     instruments |-> Ok(<< [nc_var_name |-> "instrument_oxy",
                            attrs |-> ("serial" :> "7")] >>),
     sdraw |-> Ok("s1" :> [nc_var_name |-> "temp",
                           attrs |-> ("units" :> "C")]),
     sdprofile |-> Ok("s1" :> [nc_var_name |-> "temperature",
                               attrs |-> (("units" :> "K") @@ ("comment" :> "y"))]),
     sensors |-> Ok(<<"s2", "s1">>), descriptor |-> Missing]

BatchFiles ==
    LET F == {GoodFiles, AltFiles} \cup FaultyFiles
    IN  F \cup {[f EXCEPT !.descriptor = Ok(StaleDescriptor)] : f \in F}

\* the locals of main() before the loop over the deployments
InitLocals ==
    /\ i = 1
    /\ template_data = EmptyMap
    /\ platform_metadata = EmptyMap
    /\ instruments = <<>>
    /\ combined_data = EmptyMap
    /\ sensors = <<>>
    /\ j = 1
    /\ check = FALSE
    /\ log = <<>>
    /\ handler = "none"

\* the state of main() on entry to the loop over the deployments
InitMain ==
    /\ pc = "start"
    /\ data_home = "ok"
    /\ deployments_root = find_glider_deployments_rootdir("ok")[2]
    /\ InitLocals

\* a batch of deployments, each sound or with one defect
Init ==
    /\ deployments \in SeqsUpTo(Deployments, MaxBatch) \ {<<>>}
    /\ files \in [Deployments -> BatchFiles]
    /\ \A d \in Deployments \ Range(deployments) : files[d] = GoodFiles
    /\ InitMain

Spec == Init /\ [][Next]_vars

-----------------------------------------------------------------------------
(* One deployment, all documents present: the manifest pass over every    *)
(* small template variable table, pair of catalogs and manifest.          *)

\* output-variable names of catalog records: one that a template declares
\* and one that is also a raw sensor code
VarNames == {"temp", "s1"}
FullAttrs == ("units" :> "m") @@ ("comment" :> "x")

\* sensor-definition records, also ones lacking nc_var_name or attrs
CatRecords ==
    {[nc_var_name |-> n, attrs |-> FullAttrs] : n \in VarNames}
    \cup {"nc_var_name" :> "temp", "attrs" :> FullAttrs}

Catalogs == Maps(Codes, CatRecords)

\* entries a template declares, with and without a source
TemplateEntries == {("source" :> "s1") @@ ("units" :> "K"), "units" :> "K"}

\* variable tables of a template: empty, or one entry under a name that a
\* catalog record or a raw code can collide with
TemplateVariables ==
    {EmptyMap} \cup {k :> e : k \in {"temp", "s2"}, e \in TemplateEntries}

SensorTemplates ==
    {Remove(GoodTemplate, "netcdf_variables")} \cup
    {SetKey(GoodTemplate, "netcdf_variables", v) : v \in TemplateVariables}

InitSensors ==
    /\ deployments = <<"d1">>
    /\ \E t \in SensorTemplates, raw \in Catalogs, profile \in Catalogs,
          manifest \in SeqsUpTo(Codes, MaxManifest) :
          /\ Cardinality(DOMAIN raw) + Cardinality(DOMAIN profile) <= MaxCatRecords
          /\ files = [d \in Deployments |->
                        IF d = "d1"
                        THEN [GoodFiles EXCEPT !.template = Ok(t),
                                               !.sdraw = Ok(raw),
                                               !.sdprofile = Ok(profile),
                                               !.sensors = Ok(manifest)]
                        ELSE GoodFiles]
    /\ InitMain

SpecSensors == InitSensors /\ [][Next]_vars

-----------------------------------------------------------------------------
(* One deployment, all documents present: the overlays of metadata and    *)
(* platform over every small template, global attributes and platform.yml *)

TemplateMetadata == Maps({"title", "deployment", "wmo_id"}, {"tpl"})
GlobalAttrs == Maps({"title", "deployment_name", "glider_name", "wmo_id"}, {"ga"})
TemplatePlatforms == Maps({"type", "wmo_id"}, {"tpl"})

PlatformMaps ==
    {("wmo_id" :> w) @@ ("wmo_platform_code" :> "c1") @@ ("serial_number" :> "n1") @@ o :
        w \in {"w1", "w2"}, o \in {EmptyMap, "type" :> "slocum"}}

MergeTemplates ==
    LET base == Remove(Remove(GoodTemplate, "metadata"), "platform")
        withMetadata == {base} \cup {SetKey(base, "metadata", m) : m \in TemplateMetadata}
    IN  withMetadata \cup
        {SetKey(t, "platform", p) : t \in withMetadata, p \in TemplatePlatforms}

InitMerge ==
    /\ deployments \in {<<d>> : d \in Deployments}
    /\ \E t \in MergeTemplates, ga \in GlobalAttrs, pm \in PlatformMaps :
          files = [d \in Deployments |->
                     IF d = deployments[1]
                     THEN [GoodFiles EXCEPT
                             !.template = Ok(t),
                             !.globalattrs = Ok(ga),
                             !.platform = Ok(("glider" :> "g1") @@ ("platform" :> pm))]
                     ELSE GoodFiles]
    /\ InitMain

SpecMerge == InitMerge /\ [][Next]_vars

-----------------------------------------------------------------------------
(* run.main(): check_config_files.main(), then generate_deploymentyaml.    *)

\* str.lower() on the answers that are typed
lower(response) == IF response = "Y" THEN "y" ELSE response

Responses == {"y", "Y", "n", ""}

\* sys.exit(1): SystemExit leaves check_config_files.main() and run.main()
Exit == pc' = "exited" /\ i' = i

\* check_config_files.py lines 22-37: the two environment variables
CheckEnvironment ==
    /\ pc = "check_config"
    /\ UNCHANGED <<rootdir, deployments, files, locals, handler>>
    /\ \E config_home \in {"unset", "invalid", "ok"} :
          IF data_home \in {"unset", "invalid"}
          THEN /\ LogTo("base", "error", data_home)
               /\ Exit
          ELSE IF config_home # "ok"
          THEN /\ LogTo("base", "error", "config_home_" \o config_home)
               /\ Exit
          ELSE /\ pc' = "copy"
               /\ i' = 1
               /\ log' = log

\* directories of the configuration home: none for the glider, one with
\* every document, one with two documents only
ConfigDirs ==
    {EmptyMap,
     [doc \in DocNames |-> GoodFiles[doc]],
     [doc \in {"template", "sensors"} |-> AltFiles[doc]]}

\* check_config_files.py lines 39-64: the files of the glider's directory
\* under the configuration home are copied into config/proc, one by one;
\* copied is the part of indir that shutil.copy got through
CopyConfigFiles ==
    /\ pc = "copy"
    /\ UNCHANGED <<rootdir, deployments, locals, handler>>
    /\ \E indir \in ConfigDirs : \E copied \in SUBSET DOMAIN indir :
       IF indir = EmptyMap
       THEN /\ LogTo("base", "error", "template_config_dir_not_found")
            /\ Exit
            /\ files' = files
       ELSE IF ~config.config_root
       THEN /\ LogTo("base", "error", "deployment_config_dir_not_found")
            /\ Exit
            /\ files' = files
       ELSE /\ files' = [files EXCEPT ![deployment] =
                            Update(config, [doc \in copied |-> indir[doc]])]
            /\ IF copied # DOMAIN indir
               THEN /\ LogTo("base", "error", "error_copying_config_files")
                    /\ Exit
               ELSE /\ log' = log
                    /\ IF i < Len(deployments)
                       THEN i' = i + 1 /\ pc' = pc
                       ELSE i' = 1 /\ pc' = "confirm"

\* variant: an answer other than y is logged and the loop goes on
ConfirmDeployment_Continues ==
    /\ pc = "confirm"
    /\ UNCHANGED <<rootdir, deployments, files, locals, handler>>
    /\ \E response \in Responses :
       LET said == [file |-> "base",
                    level |-> IF lower(response) # "y" THEN "error" ELSE "info",
                    msg |-> IF lower(response) # "y" THEN "user_exit"
                            ELSE "config_files_correct",
                    deployment |-> deployment]
       IN  IF i < Len(deployments)
           THEN /\ log' = Append(log, said)
                /\ i' = i + 1
                /\ pc' = pc
           ELSE /\ log' = Append(Append(log, said),
                                 [file |-> "base", level |-> "info",
                                  msg |-> "user_confirmed_all",
                                  deployment |-> "none"])
                /\ i' = 1
                /\ pc' = "rootdir"

\* check_config_files.py lines 66-84: the confirmation of one deployment;
\* after the last one main() returns and run.main() goes on to line 34
ConfirmDeployment ==
    /\ pc = "confirm"
    /\ UNCHANGED <<rootdir, deployments, files, locals, handler>>
    /\ \E response \in Responses :
       IF lower(response) # "y"
       THEN /\ LogTo("base", "error", "user_exit")
            /\ Exit
       ELSE LET said == [file |-> "base", level |-> "info",
                         msg |-> "config_files_correct",
                         deployment |-> deployment]
            IN  IF i < Len(deployments)
                THEN /\ log' = Append(log, said)
                     /\ i' = i + 1
                     /\ pc' = pc
                ELSE /\ log' = Append(Append(log, said),
                                      [file |-> "base", level |-> "info",
                                       msg |-> "user_confirmed_all",
                                       deployment |-> "none"])
                     /\ i' = 1
                     /\ pc' = "rootdir"

NextPipeline ==
    \/ CheckEnvironment
    \/ CopyConfigFiles
    \/ ConfirmDeployment
    \/ NextMain

\* config/proc as init_deployment.main() leaves it when it was empty
BlankFiles ==
    [f \in DOMAIN GoodFiles |-> IF f \in DocNames THEN Missing ELSE GoodFiles[f]]

PipelineFiles ==
    {BlankFiles, GoodFiles, [GoodFiles EXCEPT !.descriptor = Ok(StaleDescriptor)]}

\* run.main() at line 30: init_deployment.main() has returned, so the data
\* home is valid and every deployment has its directories
InitPipeline ==
    /\ deployments \in SeqsUpTo(Deployments, MaxBatch) \ {<<>>}
    /\ files \in [Deployments -> PipelineFiles]
    /\ \A d \in Deployments \ Range(deployments) : files[d] = GoodFiles
    /\ pc = "check_config"
    /\ data_home = "ok"
    /\ deployments_root = Unbound
    /\ InitLocals

SpecPipeline == InitPipeline /\ [][NextPipeline]_vars

-----------------------------------------------------------------------------
(* generate_deploymentyaml.main() from its first line, for every state of *)
(* the data home.                                                          *)

RootdirFiles ==
    {GoodFiles, AltFiles, [GoodFiles EXCEPT !.proc_logs = FALSE],
     [GoodFiles EXCEPT !.descriptor = Ok(StaleDescriptor)],
     [GoodFiles EXCEPT !.sensors = Missing]}

InitRootdir ==
    /\ deployments \in SeqsUpTo(Deployments, MaxBatch) \ {<<>>}
    /\ files \in [Deployments -> RootdirFiles]
    /\ \A d \in Deployments \ Range(deployments) : files[d] = GoodFiles
    /\ pc = "rootdir"
    /\ data_home \in DataHomes
    /\ deployments_root = Unbound
    /\ InitLocals

SpecRootdir == InitRootdir /\ [][NextMain]_vars

-----------------------------------------------------------------------------
(* Vocabulary of the properties. *)

TemplateOf(d) == files[d].template.data
Descriptor(d) == files[d].descriptor.data

\* deployment.yml of d was written by this run
Written(d) ==
    /\ files[d].descriptor.status = "ok"
    /\ Descriptor(d) # StaleDescriptor

\* some entry of the variable table of td has source s
AlreadySource(s, td) ==
    /\ "netcdf_variables" \in DOMAIN td
    /\ \E k \in DOMAIN td["netcdf_variables"] :
          /\ "source" \in DOMAIN td["netcdf_variables"][k]
          /\ td["netcdf_variables"][k]["source"] = s

\* main() is about to process the manifest code sensors[j]
AtManifestCode == pc = "manifest" /\ j <= Len(sensors)

\* main() has just processed the manifest code sensors[j - 1]
AfterManifestCode == pc = "manifest" /\ j > 1

\* iteration n of the loop over the batch is over
IterationOver(n) == i > n \/ (i = n /\ pc = "crashed")

LoggedError(d) ==
    \E n \in 1..Len(log) : log[n].level = "error" /\ log[n].deployment = d

-----------------------------------------------------------------------------
(* C1: every entry that the template declares in netcdf_variables is in    *)
(* the written descriptor under the same key with the same content.        *)
C1_TemplateWins ==
    \A d \in Deployments :
        (Written(d) /\ "netcdf_variables" \in DOMAIN TemplateOf(d)) =>
            /\ "netcdf_variables" \in DOMAIN Descriptor(d)
            /\ \A k \in DOMAIN TemplateOf(d)["netcdf_variables"] :
                  /\ k \in DOMAIN Descriptor(d)["netcdf_variables"]
                  /\ Descriptor(d)["netcdf_variables"][k] =
                         TemplateOf(d)["netcdf_variables"][k]

(* C2: when one of the seven documents of a deployment is missing or       *)
(* unparsable, the iteration logs an error and the loop moves on to the    *)
(* next deployment.                                                        *)
C2_FatalToDeployment ==
    \A n \in 1..Len(deployments) :
        LET d == deployments[n] IN
        (/\ IterationOver(n)
         /\ files[d].location = "found"
         /\ files[d].proc_logs
         /\ \E doc \in DocNames : files[d][doc].status # "ok")
        => (i > n /\ LoggedError(d))

(* C3: no exception leaves the loop over the deployments.                  *)
C3_NoExceptionCrosses == pc # "crashed"

(* C4: the final platform is the template's platform updated key by key    *)
(* with platform.yml's platform, or platform.yml's platform when the       *)
(* template has none.                                                      *)
C4_PlatformOverlay ==
    \A d \in Deployments :
        Written(d) =>
            LET tpl == TemplateOf(d)
                pm == files[d].platform.data["platform"]
                final == Descriptor(d)["platform"]
            IN  IF "platform" \in DOMAIN tpl
                THEN /\ DOMAIN final = (DOMAIN tpl["platform"]) \cup (DOMAIN pm)
                     /\ \A k \in DOMAIN final :
                           final[k] = IF k \in DOMAIN pm THEN pm[k]
                                      ELSE tpl["platform"][k]
                ELSE final = pm

(* C5: after the global-attributes step, metadata is the template's        *)
(* metadata updated key by key with deployment-globalattrs.yml, or exactly *)
(* the global attributes when the template has no metadata.                *)
C5_GlobalAttrsOverlay ==
    pc = "platform" =>
        LET tpl == TemplateOf(deployment)
            ga == files[deployment].globalattrs.data
            md == template_data["metadata"]
        IN  IF "metadata" \in DOMAIN tpl
            THEN /\ DOMAIN md = (DOMAIN tpl["metadata"]) \cup (DOMAIN ga)
                 /\ \A k \in DOMAIN md :
                       md[k] = IF k \in DOMAIN ga THEN ga[k]
                               ELSE tpl["metadata"][k]
            ELSE md = ga

C5_Witness ==
    /\ pc = "platform"
    /\ "metadata" \in DOMAIN TemplateOf(deployment)
    /\ LET tm == TemplateOf(deployment)["metadata"]
           ga == files[deployment].globalattrs.data
       IN  /\ "title" \in (DOMAIN tm) \cap (DOMAIN ga)
           /\ (DOMAIN tm) \ (DOMAIN ga) # {}
           /\ template_data["metadata"]["title"] = ga["title"]

(* C6: in every written descriptor metadata.deployment and                 *)
(* metadata.deployment_name are the deployment identifier.                 *)
C6_DeploymentName ==
    \A d \in Deployments :
        Written(d) =>
            /\ "metadata" \in DOMAIN Descriptor(d)
            /\ {"deployment", "deployment_name"} \subseteq DOMAIN Descriptor(d)["metadata"]
            /\ Descriptor(d)["metadata"]["deployment"] = d
            /\ Descriptor(d)["metadata"]["deployment_name"] = d

C6_Witness ==
    \E d \in Deployments :
        /\ Written(d)
        /\ "metadata" \in DOMAIN TemplateOf(d)
        /\ "deployment" \in DOMAIN TemplateOf(d)["metadata"]
        /\ "deployment_name" \in DOMAIN files[d].globalattrs.data
        /\ Descriptor(d)["metadata"]["deployment_name"] = d

(* C7: in every written descriptor the four derived metadata fields are    *)
(* the values of platform.yml.                                             *)
C7_DerivedMetadata ==
    \A d \in Deployments :
        Written(d) =>
            LET md == Descriptor(d)["metadata"]
                pm == files[d].platform.data
            IN  /\ {"wmo_id", "wmo_platform_code", "glider_serial", "glider_name"}
                       \subseteq DOMAIN md
                /\ md["wmo_id"] = pm["platform"]["wmo_id"]
                /\ md["wmo_platform_code"] = pm["platform"]["wmo_platform_code"]
                /\ md["glider_serial"] = pm["platform"]["serial_number"]
                /\ md["glider_name"] = pm["glider"]

C7_Witness ==
    \E d \in Deployments :
        /\ Written(d)
        /\ "metadata" \in DOMAIN TemplateOf(d)
        /\ "wmo_id" \in DOMAIN TemplateOf(d)["metadata"]
        /\ {"wmo_id", "glider_name"} \subseteq DOMAIN files[d].globalattrs.data
        /\ Descriptor(d)["metadata"]["wmo_id"] = "w2"

(* C8: the step of a manifest code that is already a source leaves the     *)
(* working copy unchanged and logs nothing.                                *)
C8_SkipListed ==
    [][(AtManifestCode /\ AlreadySource(sensors[j], template_data))
           => (template_data' = template_data /\ log' = log)]_vars

C8_Witness ==
    /\ AfterManifestCode
    /\ check
    /\ AlreadySource(sensors[j - 1], template_data)
    /\ sensors[j - 1] \in DOMAIN combined_data

(* C9: the step of a manifest code that is not yet a source and has a      *)
(* catalog record gives netcdf_variables an entry keyed by the record's    *)
(* nc_var_name, with source the code and otherwise exactly the record's    *)
(* allow-listed attributes.                                                *)
C9_HitEntry ==
    [][(/\ AtManifestCode
        /\ "netcdf_variables" \in DOMAIN template_data
        /\ ~AlreadySource(sensors[j], template_data)
        /\ sensors[j] \in DOMAIN combined_data
        /\ "nc_var_name" \in DOMAIN combined_data[sensors[j]])
       => LET sensor == sensors[j]
              record == combined_data[sensor]
              attrs == IF "attrs" \in DOMAIN record THEN record["attrs"] ELSE EmptyMap
              table == template_data'["netcdf_variables"]
              name == record["nc_var_name"]
          IN  /\ name \in DOMAIN table
              /\ "source" \in DOMAIN table[name]
              /\ table[name]["source"] = sensor
              /\ (DOMAIN table[name]) \ {"source"} = (DOMAIN attrs) \cap AllowList
              /\ \A key \in (DOMAIN table[name]) \ {"source"} :
                    table[name][key] = attrs[key]]_vars

C9_Witness ==
    /\ AfterManifestCode
    /\ ~check
    /\ sensors[j - 1] \in DOMAIN combined_data
    /\ LET record == combined_data[sensors[j - 1]]
       IN  /\ {"nc_var_name", "attrs"} \subseteq DOMAIN record
           /\ LET entry == template_data["netcdf_variables"][record["nc_var_name"]]
              IN  /\ entry["source"] = sensors[j - 1]
                  /\ entry["units"] = "m"

C10_AllowedKeys ==
    {"source", "axis", "units", "long_name", "standard_name", "valid_min",
     "valid_max", "fill_value"}

(* C10: an entry that a step of the manifest pass adds or rewrites has no  *)
(* key outside source and the seven allow-listed attribute names.          *)
C10_AllowListOnly ==
    [][(AtManifestCode /\ "netcdf_variables" \in DOMAIN template_data) =>
        \A k \in DOMAIN template_data'["netcdf_variables"] :
            (\/ k \notin DOMAIN template_data["netcdf_variables"]
             \/ template_data'["netcdf_variables"][k] #
                    template_data["netcdf_variables"][k])
            => DOMAIN template_data'["netcdf_variables"][k] \subseteq C10_AllowedKeys]_vars

C10_Witness ==
    /\ AfterManifestCode
    /\ ~check
    /\ sensors[j - 1] \in DOMAIN combined_data
    /\ LET record == combined_data[sensors[j - 1]]
       IN  /\ {"nc_var_name", "attrs"} \subseteq DOMAIN record
           /\ "comment" \in DOMAIN record["attrs"]
           /\ LET entry == template_data["netcdf_variables"][record["nc_var_name"]]
              IN  /\ entry["source"] = sensors[j - 1]
                  /\ "comment" \notin DOMAIN entry

-----------------------------------------------------------------------------
\* the 'No information found' warnings logged for code c
Warnings(c) ==
    {n \in 1..Len(log) :
        log[n].msg = "no_information_found" /\ log[n].sensor = c}

\* code c stands in the manifest before position j
Processed(c) == \E n \in 1..Len(sensors) : n < j /\ sensors[n] = c

InBothCatalogsAbsent(d, c) ==
    /\ c \notin DOMAIN files[d].sdraw.data
    /\ c \notin DOMAIN files[d].sdprofile.data

(* C11: a manifest code absent from both catalogs and not yet a source     *)
(* gets, at its step, the entry keyed by the code with source as its only  *)
(* field, and is warned about exactly once over the whole manifest pass.   *)
C11_OneWarning ==
    \A c \in Codes :
        (/\ pc \in {"manifest", "done"}
         /\ InBothCatalogsAbsent(deployments[1], c)
         /\ "netcdf_variables" \in DOMAIN TemplateOf(deployments[1])
         /\ ~AlreadySource(c, TemplateOf(deployments[1]))
         /\ Processed(c))
        => /\ Cardinality(Warnings(c)) = 1
           /\ (pc = "manifest" /\ sensors[j - 1] = c /\ ~check) =>
                 /\ c \in DOMAIN template_data["netcdf_variables"]
                 /\ template_data["netcdf_variables"][c] = ("source" :> c)

-----------------------------------------------------------------------------
\* the deployment is found and its seven documents load
AllDocumentsLoad(d) ==
    /\ files[d].location = "found"
    /\ files[d].proc_logs
    /\ \A doc \in DocNames : files[d][doc].status = "ok"

\* the documents load and have the fields that main() reads from them
WellFormed(d) ==
    /\ AllDocumentsLoad(d)
    /\ "netcdf_variables" \in DOMAIN TemplateOf(d)
    /\ "platform" \in DOMAIN files[d].platform.data
    /\ "glider" \in DOMAIN files[d].platform.data
    /\ {"wmo_id", "wmo_platform_code", "serial_number"}
           \subseteq DOMAIN files[d].platform.data["platform"]

Manifest(d) == files[d].sensors.data

-----------------------------------------------------------------------------
(* C13: the combined lookup has exactly the codes of the two catalogs; a   *)
(* code of the profile catalog has the profile record, any other code the  *)
(* raw record.                                                             *)
C13_CatalogOverlay ==
    pc \in {"sensors", "manifest"} =>
        LET raw == files[deployment].sdraw.data
            profile == files[deployment].sdprofile.data
        IN  /\ DOMAIN combined_data = (DOMAIN raw) \cup (DOMAIN profile)
            /\ \A c \in DOMAIN combined_data :
                  combined_data[c] = IF c \in DOMAIN profile THEN profile[c]
                                     ELSE raw[c]

C13_Witness ==
    /\ pc = "sensors"
    /\ LET raw == files[deployment].sdraw.data
           profile == files[deployment].sdprofile.data
       IN  \E c \in (DOMAIN raw) \cap (DOMAIN profile) :
              /\ raw[c] # profile[c]
              /\ c \in DOMAIN combined_data
              /\ combined_data[c] = profile[c]

-----------------------------------------------------------------------------
(* One deployment, all documents present: every short instrument catalog, *)
(* over templates with and without instruments of their own.              *)

InstrumentRecords ==
    {[nc_var_name |-> n, attrs |-> ("serial" :> v)] :
        n \in {"instrument_ctd", "instrument_oxy"}, v \in {"1", "2"}}

TemplateInstruments ==
    {EmptyMap, "instrument_old" :> ("serial" :> "0"),
     "instrument_ctd" :> ("serial" :> "0")}

InstrumentTemplates ==
    {GoodTemplate} \cup
    {SetKey(GoodTemplate, "instruments", m) : m \in TemplateInstruments}

InitInstruments ==
    /\ deployments = <<"d1">>
    /\ \E t \in InstrumentTemplates,
          recs \in SeqsUpTo(InstrumentRecords, MaxInstruments) :
          files = [d \in Deployments |->
                     IF d = "d1"
                     THEN [GoodFiles EXCEPT !.template = Ok(t),
                                            !.instruments = Ok(recs)]
                     ELSE GoodFiles]
    /\ InitMain

SpecInstruments == InitInstruments /\ [][Next]_vars

(* C14: the final instruments mapping has one key per output-variable name *)
(* of instruments.json, valued by the attributes of the last record of     *)
(* that name, and no key of the template's own instruments.                *)
C14_InstrumentsReplaced ==
    \A d \in Deployments :
        Written(d) =>
            LET recs == files[d].instruments.data
            IN  /\ "instruments" \in DOMAIN Descriptor(d)
                /\ DOMAIN Descriptor(d)["instruments"] =
                       {recs[n]["nc_var_name"] : n \in 1..Len(recs)}
                /\ \A k \in DOMAIN Descriptor(d)["instruments"] :
                      \E n \in 1..Len(recs) :
                          /\ recs[n]["nc_var_name"] = k
                          /\ Descriptor(d)["instruments"][k] = recs[n]["attrs"]
                          /\ \A m \in (n + 1)..Len(recs) :
                                recs[m]["nc_var_name"] # k

C14_Witness ==
    \E d \in Deployments :
        /\ Written(d)
        /\ "instruments" \in DOMAIN TemplateOf(d)
        /\ "instrument_old" \in DOMAIN TemplateOf(d)["instruments"]
        /\ LET recs == files[d].instruments.data
           IN  /\ Len(recs) = 2
               /\ recs[1]["nc_var_name"] = recs[2]["nc_var_name"]
               /\ recs[1]["attrs"] # recs[2]["attrs"]
               /\ Descriptor(d)["instruments"] =
                      (recs[2]["nc_var_name"] :> recs[2]["attrs"])

-----------------------------------------------------------------------------
(* C15: a deployment whose compilation is aborted, with an error entry or  *)
(* by an exception, has no deployment.yml or the one from before the run.  *)
C15_AbortLeavesDescriptor ==
    \A d \in Deployments :
        (LoggedError(d) \/ (pc = "crashed" /\ deployments[i] = d))
        => files[d].descriptor \in {Missing, Ok(StaleDescriptor)}

C15_Witness ==
    \E d \in Deployments :
        /\ LoggedError(d)
        /\ files[d].proc_logs
        /\ files[d].sensors.status = "missing"
        /\ files[d].template.status = "ok"
        /\ files[d].descriptor = Ok(StaleDescriptor)

-----------------------------------------------------------------------------
\* the documents of d, whatever deployment.yml holds
Documents(d) == [files[d] EXCEPT !.descriptor = Missing]

\* the descriptor that the documents of GoodFiles compile to for deployment d
ExpectedGood(d) ==
    [metadata |-> [title |-> "ga", project |-> "ga", wmo_id |-> "w1",
                   wmo_platform_code |-> "c1", deployment |-> d,
                   deployment_name |-> d, glider_name |-> "g1",
                   glider_serial |-> "n1"],
     platform |-> [wmo_id |-> "w1", wmo_platform_code |-> "c1",
                   serial_number |-> "n1", type |-> "slocum"],
     instruments |-> [instrument_ctd |-> [serial |-> "1"]],
     netcdf_variables |-> [temp |-> [source |-> "s1"],
                           depth |-> [source |-> "s2", units |-> "m"]],
     profile_variables |-> [profile_time |-> [units |-> "s"]]]

\* the descriptor that the documents of AltFiles compile to for deployment d
ExpectedAlt(d) ==
    [metadata |-> [title |-> "alt", summary |-> "alt", project |-> "alt",
                   wmo_id |-> "w2", wmo_platform_code |-> "c2",
                   deployment |-> d, deployment_name |-> d,
                   glider_name |-> "g2", glider_serial |-> "n2"],
     platform |-> [wmo_id |-> "w2", wmo_platform_code |-> "c2",
                   serial_number |-> "n2"],
     instruments |-> [instrument_oxy |-> [serial |-> "7"]],
     netcdf_variables |-> [pressure |-> [source |-> "s2"],
                           temperature |-> [source |-> "s1", units |-> "K"]],
     profile_variables |-> [profile_lat |-> [units |-> "deg"]]]

(* C19: the descriptor written for a deployment is the one its own         *)
(* documents and identifier determine, whichever deployments, compiled or  *)
(* failed, came before it in the batch.                                    *)
C19_Independent ==
    \A d \in Deployments :
        Written(d) =>
            /\ Documents(d) = GoodFiles => Descriptor(d) = ExpectedGood(d)
            /\ Documents(d) = AltFiles => Descriptor(d) = ExpectedAlt(d)

C19_Witness ==
    /\ pc = "done"
    /\ Len(deployments) = 2
    /\ deployments[1] # deployments[2]
    /\ Documents(deployments[1]) = AltFiles
    /\ Documents(deployments[2]) = GoodFiles
    /\ files[deployments[2]].descriptor.status = "ok"
    /\ Descriptor(deployments[2]) = ExpectedGood(deployments[2])
    /\ Descriptor(deployments[1]) = ExpectedAlt(deployments[1])

-----------------------------------------------------------------------------
\* the entries of the log that report a written deployment.yml for d
WriteReports(d) ==
    {n \in 1..Len(log) :
        log[n].msg = "wrote_deployment_yml" /\ log[n].deployment = d}

\* the iterations of the loop for d that are over
IterationsOver(d) ==
    {n \in 1..Len(deployments) : deployments[n] = d /\ IterationOver(n)}

\* every manifest code has been resolved
ManifestDone == pc = "manifest" /\ j > Len(sensors)

C17_Idempotent ==
    [][(/\ ManifestDone
        /\ \E n \in 1..(i - 1) : deployments[n] = deployments[i])
       => files'[deployments[i]].descriptor = files[deployments[i]].descriptor]_vars

C17_Witness ==
    /\ pc = "done"
    /\ Len(deployments) = 2
    /\ deployments[1] = deployments[2]
    /\ Cardinality(WriteReports(deployments[1])) = 2
    /\ Written(deployments[1])

(* C20: no step changes an input document of any deployment.               *)
C20_InputsUnchanged ==
    [][\A d \in Deployments : \A doc \in DocNames :
           files'[d][doc] = files[d][doc]]_vars

C20_Witness ==
    \E d \in Deployments :
        /\ Written(d)
        /\ WriteReports(d) # {}
        /\ Documents(d) = AltFiles

-----------------------------------------------------------------------------
\* every entry of the variable table of td has a source
AllHaveSource(td) ==
    "netcdf_variables" \in DOMAIN td =>
        \A k \in DOMAIN td["netcdf_variables"] :
            "source" \in DOMAIN td["netcdf_variables"][k]

(* C18: when every entry the template declares has a source, every entry   *)
(* of the written descriptor has one, and an entry that the step of a      *)
(* manifest code adds or rewrites has that code as its source.             *)
C18_EverySource ==
    /\ [](\A d \in Deployments :
             (Written(d) /\ AllHaveSource(TemplateOf(d)))
                 => AllHaveSource(Descriptor(d)))
    /\ [][(AtManifestCode /\ "netcdf_variables" \in DOMAIN template_data) =>
            \A k \in DOMAIN template_data'["netcdf_variables"] :
                (\/ k \notin DOMAIN template_data["netcdf_variables"]
                 \/ template_data'["netcdf_variables"][k] #
                        template_data["netcdf_variables"][k])
                => /\ "source" \in DOMAIN template_data'["netcdf_variables"][k]
                   /\ template_data'["netcdf_variables"][k]["source"] = sensors[j]]_vars

C18_Witness ==
    \E d \in Deployments :
        /\ Written(d)
        /\ "netcdf_variables" \in DOMAIN TemplateOf(d)
        /\ DOMAIN TemplateOf(d)["netcdf_variables"] # {}
        /\ AllHaveSource(TemplateOf(d))
        /\ \E c \in Codes :
              /\ InBothCatalogsAbsent(d, c)
              /\ c \in DOMAIN Descriptor(d)["netcdf_variables"]
              /\ c \notin DOMAIN TemplateOf(d)["netcdf_variables"]
              /\ Descriptor(d)["netcdf_variables"][c] = ("source" :> c)

-----------------------------------------------------------------------------
(* C21: the call for a manifest code answers true exactly when some entry  *)
(* of the working copy's netcdf_variables has that code as its source,     *)
(* false when the table is absent or empty or no entry has a source, and   *)
(* a true answer leaves the working copy as it was.                        *)
C21_ListedIffSource ==
    [][AtManifestCode =>
          /\ check' = (/\ "netcdf_variables" \in DOMAIN template_data
                       /\ \E var \in DOMAIN template_data["netcdf_variables"] :
                             /\ "source" \in DOMAIN template_data["netcdf_variables"][var]
                             /\ template_data["netcdf_variables"][var]["source"]
                                    = sensors[j])
          /\ check' => template_data' = template_data]_vars

C21_Witness ==
    /\ AfterManifestCode
    /\ j = 2
    /\ ~check
    /\ "netcdf_variables" \in DOMAIN TemplateOf(deployment)
    /\ \E var \in DOMAIN TemplateOf(deployment)["netcdf_variables"] :
          /\ "source" \notin DOMAIN TemplateOf(deployment)["netcdf_variables"][var]
          /\ var # sensors[1]

-----------------------------------------------------------------------------
(* C22: in every written descriptor every code of the manifest is the      *)
(* source of some entry of netcdf_variables.                               *)
C22_ManifestCoverage ==
    \A d \in Deployments :
        Written(d) =>
            \A m \in 1..Len(Manifest(d)) :
                AlreadySource(Manifest(d)[m], Descriptor(d))

\* no two entries of the variable table of td have the same source
DistinctSources(td) ==
    "netcdf_variables" \in DOMAIN td =>
        \A k1, k2 \in DOMAIN td["netcdf_variables"] :
            (/\ k1 # k2
             /\ "source" \in DOMAIN td["netcdf_variables"][k1]
             /\ "source" \in DOMAIN td["netcdf_variables"][k2])
            => td["netcdf_variables"][k1]["source"] #
                   td["netcdf_variables"][k2]["source"]

(* C23: when the template's entries have pairwise distinct sources, so     *)
(* have the entries of the working copy throughout the manifest pass and   *)
(* the entries of the written descriptor.                                  *)
C23_SourceUnique ==
    /\ (pc = "manifest" /\ DistinctSources(TemplateOf(deployment)))
           => DistinctSources(template_data)
    /\ \A d \in Deployments :
          (Written(d) /\ DistinctSources(TemplateOf(d)))
              => DistinctSources(Descriptor(d))

(* C24: the step of a code that stands earlier in the manifest leaves      *)
(* netcdf_variables unchanged.                                             *)
C24_FirstOccurrenceWins ==
    [][(/\ AtManifestCode
        /\ Processed(sensors[j])
        /\ "netcdf_variables" \in DOMAIN template_data)
       => /\ "netcdf_variables" \in DOMAIN template_data'
          /\ template_data'["netcdf_variables"] =
                 template_data["netcdf_variables"]]_vars

(* C25: a code with a record in the combined catalog is never warned       *)
(* about and never gets the minimal entry keyed by the code.               *)
C25_WarningOnlyIfAbsent ==
    [][(AtManifestCode /\ sensors[j] \in DOMAIN combined_data)
       => /\ log' = log
          /\ \/ "netcdf_variables" \notin DOMAIN template_data'
             \/ sensors[j] \notin DOMAIN template_data'["netcdf_variables"]
             \/ template_data'["netcdf_variables"][sensors[j]] #
                    ("source" :> sensors[j])
             \/ template_data' = template_data
             \/ /\ "nc_var_name" \in DOMAIN combined_data[sensors[j]]
                /\ combined_data[sensors[j]]["nc_var_name"] = sensors[j]]_vars

-----------------------------------------------------------------------------
\* the record that the combined lookup of deployment d has for code c
CombinedRecord(d, c) ==
    IF c \in DOMAIN files[d].sdprofile.data
    THEN files[d].sdprofile.data[c] ELSE files[d].sdraw.data[c]

(* C27: every key of the written descriptor's netcdf_variables is a key of *)
(* the template, the nc_var_name of the combined record of a manifest      *)
(* code, or a manifest code; no step of the manifest pass removes a key.   *)
C27_KeysAccountedFor ==
    /\ [](\A d \in Deployments :
             (Written(d) /\ "netcdf_variables" \in DOMAIN TemplateOf(d)) =>
                 /\ "netcdf_variables" \in DOMAIN Descriptor(d)
                 /\ \A k \in DOMAIN Descriptor(d)["netcdf_variables"] :
                       \/ k \in DOMAIN TemplateOf(d)["netcdf_variables"]
                       \/ k \in Range(Manifest(d))
                       \/ \E c \in Range(Manifest(d)) :
                             /\ ~InBothCatalogsAbsent(d, c)
                             /\ "nc_var_name" \in DOMAIN CombinedRecord(d, c)
                             /\ CombinedRecord(d, c)["nc_var_name"] = k)
    /\ [][(pc = "manifest" /\ "netcdf_variables" \in DOMAIN template_data) =>
             /\ "netcdf_variables" \in DOMAIN template_data'
             /\ DOMAIN template_data["netcdf_variables"] \subseteq
                    DOMAIN template_data'["netcdf_variables"]]_vars

C27_Witness ==
    \E d \in Deployments :
        /\ Written(d)
        /\ "netcdf_variables" \in DOMAIN TemplateOf(d)
        /\ DOMAIN TemplateOf(d)["netcdf_variables"] # {}
        /\ DOMAIN TemplateOf(d)["netcdf_variables"] \subseteq
               DOMAIN Descriptor(d)["netcdf_variables"]
        /\ \E k \in DOMAIN Descriptor(d)["netcdf_variables"] :
              /\ k \notin DOMAIN TemplateOf(d)["netcdf_variables"]
              /\ k \notin Range(Manifest(d))
        /\ \E c \in Range(Manifest(d)) :
              /\ InBothCatalogsAbsent(d, c)
              /\ c \in DOMAIN Descriptor(d)["netcdf_variables"]
              /\ Descriptor(d)["netcdf_variables"][c] = ("source" :> c)

-----------------------------------------------------------------------------
(* C26: every warning and error that the per-deployment logger writes      *)
(* goes to the log file of the deployment being compiled.                  *)
C26_LogIsolation ==
    \A n \in 1..Len(log) :
        (log[n].level \in {"warning", "error"} /\ log[n].file # "base")
            => log[n].file = log[n].deployment

-----------------------------------------------------------------------------
-----------------------------------------------------------------------------
-----------------------------------------------------------------------------
\* the user has answered something other than y for some deployment
UserExit == \E n \in 1..Len(log) : log[n].msg = "user_exit"

\* the user has answered y for deployment d
Confirmed(d) ==
    \E n \in 1..Len(log) :
        log[n].msg = "config_files_correct" /\ log[n].deployment = d

(* C28: in run.main() generate_deploymentyaml starts only when every       *)
(* deployment of the batch has been confirmed; after an answer other than  *)
(* y the process has exited and no deployment.yml is ever written.         *)
C28_ConfirmedBeforeGenerate ==
    /\ [](/\ UserExit =>
                /\ pc = "exited"
                /\ \A d \in Deployments : WriteReports(d) = {} /\ ~Written(d)
          /\ pc \notin {"check_config", "copy", "confirm", "exited"} =>
                \A n \in 1..Len(deployments) : Confirmed(deployments[n]))
    /\ [][(\E d \in Deployments :
              files'[d].descriptor # files[d].descriptor)
          => /\ ~UserExit
             /\ \A n \in 1..Len(deployments) : Confirmed(deployments[n])]_vars

C28_Witness ==
    /\ pc = "exited"
    /\ Len(deployments) = 2
    /\ deployments[1] # deployments[2]
    /\ Confirmed(deployments[1])
    /\ ~Confirmed(deployments[2])
    /\ UserExit
    /\ \A doc \in DocNames : files[deployments[1]][doc].status = "ok"
    /\ files[deployments[1]].descriptor = Missing

====
